---- MODULE Spec2Model ----
(***************************************************************************)
(* Model of midimaker.py: MidiController, its serial processing loop       *)
(* (process_serial_data), the note gate (send_midi_messages) and the two   *)
(* conversions cents_to_midi_note and cents_to_pitch_bend.                 *)
(*                                                                         *)
(* Text is modelled as a sequence of one-character strings.  Python's None *)
(* is modelled as the integer -1, which no note or velocity can take.      *)
(* current_volume is a float in the source; it is modelled as an integer   *)
(* number of 1/VolDen units, so that volume * 127 is exact.                *)
(***************************************************************************)
EXTENDS Integers, Sequences, FiniteSets, TLC

VARIABLES
    pc,                  \* position of process_serial_data: "init", "loop", "closed"
    powered,             \* self.powered
    last_note,           \* self.last_note
    last_vel_note,       \* self.last_vel_note
    current_cents,       \* self.current_cents
    current_volume,      \* self.current_volume, in units of 1/VolDen
    current_midi_value,  \* self.current_midi_value (set by the loop)
    current_velocity,    \* self.current_velocity (set by the loop)
    last_valid_midi,     \* local of process_serial_data
    last_valid_velocity, \* local of process_serial_data
    port_open,           \* the MIDI output port is open
    sent,                \* every message handed to midi_out.sendMessage, in order
    mark,                \* Len(sent) before the last step
    pre_note,            \* last_note before the last step
    pre_vel,             \* last_vel_note before the last step
    op,                  \* the last step taken
    sample,              \* outcome of the last line read
    prev_sample,         \* outcome of the line read before that
    forwarded,           \* should_send of the last line read
    report,              \* diagnostic printed for the last line read
    exit_cause,          \* exception that left the loop
    fn_arg,              \* argument of the last direct conversion call
    fn_ret               \* its result

vars == <<pc, powered, last_note, last_vel_note, current_cents, current_volume,
          current_midi_value, current_velocity, last_valid_midi,
          last_valid_velocity, port_open, sent, mark, pre_note, pre_vel, op,
          sample, prev_sample, forwarded, report, exit_cause, fn_arg, fn_ret>>

None == -1

\* ---------------------------------------------------------------- bounds

\* current_volume ranges over k / VolDen
VolDen == 8
\* no further line is read, and no further call made, once this many
\* messages were sent
MaxSent == 6
\* no further direct call of send_midi_messages is made once this many
\* messages were sent
MaxGateSent == 4
\* cents_to_midi_note is applied to -MaxNoteCents .. MaxNoteCents
MaxNoteCents == 1350
\* cents_to_pitch_bend is applied to -MaxBendCents .. MaxBendCents
MaxBendCents == 210

\* ------------------------------------------------------- program constants

MAJOR_SCALE == <<0, 2, 4, 5, 7, 9, 11, 12>>
MINOR_SCALE == <<0, 2, 3, 5, 7, 8, 10, 12>>
\* the pentatonic scale with its last two entries exchanged
PENTATONIC_SCALE_unsorted == <<0, 2, 4, 7, 9, 12, 16, 14>>
PENTATONIC_SCALE == <<0, 2, 4, 7, 9, 12, 14, 16>>
BLUES_SCALE == <<0, 3, 5, 6, 7, 10, 12, 15>>

midi_channel == 0
VELOCITY_THRESHOLD == 5

Max(a, b) == IF a >= b THEN a ELSE b
Min(a, b) == IF a <= b THEN a ELSE b
Abs(a) == IF a >= 0 THEN a ELSE -a
\* int(): truncation toward zero of num / den, den > 0
Trunc(num, den) == IF num >= 0 THEN num \div den ELSE -((-num) \div den)

\* ---------------------------------------------------------------- messages

NoteOn(chan, note, vel) == [type |-> "NoteOn", chan |-> chan, note |-> note, vel |-> vel]
NoteOff(chan, note) == [type |-> "NoteOff", chan |-> chan, note |-> note, vel |-> 0]
PitchBend(chan, value) == [type |-> "PitchBend", chan |-> chan, value |-> value]

\* ------------------------------------------------------------- conversions

\* cents_to_midi_note with int() in place of math.floor
cents_to_midi_note_truncating(cents) ==
    LET whole_semitones == Trunc(cents, 100)
        remaining_cents == cents - 100 * whole_semitones
        midi_note == 60 + MAJOR_SCALE[(whole_semitones % 8) + 1]
    IN  [note |-> midi_note, remaining |-> remaining_cents]

\* cents_to_midi_note, for an integer number of cents: the note and the
\* remaining cents
cents_to_midi_note(cents) ==
    LET whole_semitones == cents \div 100
        remaining_cents == cents - 100 * whole_semitones
        midi_note == 60 + MAJOR_SCALE[(whole_semitones % 8) + 1]
    IN  [note |-> midi_note, remaining |-> remaining_cents]

\* cents_to_pitch_bend without the division by 2.0
cents_to_pitch_bend_undivided(cents) ==
    LET pitch_bend == Trunc(8192 * 100 + cents * 8192, 100)
    IN  Max(0, Min(16383, pitch_bend))

\* cents_to_pitch_bend, for an integer number of cents:
\* int(8192 + ((cents / 100) / 2) * 8192), clamped to 0..16383
cents_to_pitch_bend(cents) ==
    LET pitch_bend == Trunc(8192 * 200 + cents * 8192, 200)
    IN  Max(0, Min(16383, pitch_bend))

\* the velocity without the clamp to 0..127
volume_to_velocity_unclamped(volume) == Trunc(volume * 127, VolDen)

\* velocity = int(max(0, min(127, self.current_volume * 127)))
volume_to_velocity(volume) ==
    IF volume * 127 <= 0 THEN 0
    ELSE IF volume * 127 >= 127 * VolDen THEN 127
    ELSE (volume * 127) \div VolDen

\* ------------------------------------------------------------ the note gate

\* the elif condition with a strict comparison
velocity_changed_strict(lv, velocity) == lv # None /\ Abs(lv - velocity) > 31

\* the elif condition of send_midi_messages
velocity_changed(lv, velocity) == lv # None /\ Abs(lv - velocity) >= 31

\* a pitch bend sent only off centre
pitch_bend_messages_off_centre(remaining) ==
    IF cents_to_pitch_bend(remaining) = 8192 THEN <<>>
    ELSE <<PitchBend(midi_channel + 1, cents_to_pitch_bend(remaining))>>

\* a pitch bend computed from the remainder recentred on -50..50
pitch_bend_messages_recentred(remaining) ==
    <<PitchBend(midi_channel + 1, cents_to_pitch_bend(remaining - 50))>>

\* the pitch bend message of send_midi_messages
pitch_bend_messages(remaining) ==
    <<PitchBend(midi_channel + 1, cents_to_pitch_bend(remaining))>>

\* the note messages with a velocity change updated in place, without
\* the note off
note_messages_in_place(ln, lv, note, velocity) ==
    IF ln # note
    THEN (IF ln # None THEN <<NoteOff(midi_channel + 1, ln)>> ELSE <<>>)
         \o <<NoteOn(midi_channel + 1, note, velocity)>>
    ELSE IF velocity_changed(lv, velocity)
    THEN <<NoteOn(midi_channel + 1, note, velocity)>>
    ELSE <<>>

\* the note messages of send_midi_messages
note_messages(ln, lv, note, velocity) ==
    IF ln # note
    THEN (IF ln # None THEN <<NoteOff(midi_channel + 1, ln)>> ELSE <<>>)
         \o <<NoteOn(midi_channel + 1, note, velocity)>>
    ELSE IF velocity_changed(lv, velocity)
    THEN <<NoteOff(midi_channel + 1, ln), NoteOn(midi_channel + 1, note, velocity)>>
    ELSE <<>>

\* send_midi_messages without the check of self.powered
send_midi_messages_unpowered(pw, ln, lv, cents, volume) ==
    LET q == cents_to_midi_note(cents)
        velocity == volume_to_velocity(volume)
    IN  [msgs |-> pitch_bend_messages(q.remaining)
                    \o note_messages(ln, lv, q.note, velocity),
         last_note |-> q.note,
         last_vel_note |-> velocity]

\* send_midi_messages: the messages sent and the new last_note, last_vel_note
send_midi_messages(pw, ln, lv, cents, volume) ==
    IF ~pw
    THEN [msgs |-> <<>>, last_note |-> ln, last_vel_note |-> lv]
    ELSE LET q == cents_to_midi_note(cents)
             velocity == volume_to_velocity(volume)
         IN  [msgs |-> pitch_bend_messages(q.remaining)
                         \o note_messages(ln, lv, q.note, velocity),
              last_note |-> q.note,
              last_vel_note |-> velocity]

\* a finally block that only closes the port
finally_messages_none(ln) == <<>>

\* the finally block of process_serial_data: the note off, if a note is held
\* (status byte 0x80 | midi_channel is a note off on channel midi_channel + 1)
finally_messages(ln) ==
    IF ln # None THEN <<NoteOff(midi_channel + 1, ln)>> ELSE <<>>

\* ------------------------------------------------------------ line cleaning

ESC == "ESC"
Digits == {"0", "1", "2", "3", "4", "5", "6", "7", "8", "9"}
Upper == {"A", "B", "C", "D", "H", "J", "K", "M"}
Lower == {"a", "b", "f", "i", "m", "n", "x"}
Whitespace == {" ", "\t"}

\* the character classes of the pattern in strip_ansi_codes
\*   \x1B(?:[@-Z\\-_]|\[[0-?]*[ -/]*[@-~])
FeBytes == Upper \cup {"@", "\\", "]", "^", "_"}
ParamBytes == Digits \cup {":", ";", "<", "=", ">", "?"}
InterBytes == {" ", "!", "#", "+", ",", "-", ".", "/"}
FinalBytes == Upper \cup Lower \cup {"@", "[", "\\", "]", "^", "_", "{", "|", "}", "~"}

DigitVal(c) ==
    CASE c = "0" -> 0 [] c = "1" -> 1 [] c = "2" -> 2 [] c = "3" -> 3
      [] c = "4" -> 4 [] c = "5" -> 5 [] c = "6" -> 6 [] c = "7" -> 7
      [] c = "8" -> 8 [] c = "9" -> 9

Drop(s, n) == SubSeq(s, n + 1, Len(s))

\* str.strip()
RECURSIVE LStrip(_)
LStrip(s) == IF s # <<>> /\ s[1] \in Whitespace THEN LStrip(Tail(s)) ELSE s
RECURSIVE RStrip(_)
RStrip(s) ==
    IF s # <<>> /\ s[Len(s)] \in Whitespace THEN RStrip(SubSeq(s, 1, Len(s) - 1)) ELSE s
strip(s) == RStrip(LStrip(s))

\* str.replace(old, ""): every non-overlapping occurrence, left to right
RECURSIVE remove_all(_, _)
remove_all(s, old) ==
    IF Len(s) < Len(old) THEN s
    ELSE IF SubSeq(s, 1, Len(old)) = old THEN remove_all(Drop(s, Len(old)), old)
    ELSE <<s[1]>> \o remove_all(Tail(s), old)

\* raw_data.replace("0134", "").replace("134", "")
remove_noise(raw) == remove_all(remove_all(raw, <<"0", "1", "3", "4">>), <<"1", "3", "4">>)

\* the length of the longest prefix of s made of characters of class
RECURSIVE Span(_, _)
Span(s, class) == IF s # <<>> /\ s[1] \in class THEN 1 + Span(Tail(s), class) ELSE 0

\* the length of the escape sequence s starts with (s[1] is ESC), 0 if none
EscapeLen(s) ==
    IF Len(s) < 2 THEN 0
    ELSE IF s[2] \in FeBytes THEN 2
    ELSE IF s[2] # "[" THEN 0
    ELSE LET np == Span(Drop(s, 2), ParamBytes)
             ni == Span(Drop(s, 2 + np), InterBytes)
             k == 2 + np + ni + 1
         IN  IF Len(s) >= k /\ s[k] \in FinalBytes THEN k ELSE 0

\* strip_ansi_codes
RECURSIVE strip_ansi_codes(_)
strip_ansi_codes(text) ==
    IF text = <<>> THEN <<>>
    ELSE IF text[1] = ESC /\ EscapeLen(text) > 0
    THEN strip_ansi_codes(Drop(text, EscapeLen(text)))
    ELSE <<text[1]>> \o strip_ansi_codes(Tail(text))

\* str.split(): the maximal runs of non-whitespace characters
RECURSIVE split(_)
split(s) ==
    LET t == LStrip(s)
        n == Span(t, {c \in {t[i] : i \in 1..Len(t)} : c \notin Whitespace})
    IN  IF t = <<>> THEN <<>> ELSE <<SubSeq(t, 1, n)>> \o split(Drop(t, n))

\* the value of a string of digits
RECURSIVE DigitsValue(_)
DigitsValue(s) ==
    IF s = <<>> THEN 0 ELSE 10 * DigitsValue(SubSeq(s, 1, Len(s) - 1)) + DigitVal(s[Len(s)])

\* int(float(token)): [kind |-> "int", value |-> n], or the exception raised.
\* float() takes an optional sign, then inf, nan, or digits with at most one
\* decimal point and at least one digit; int() truncates toward zero, raises
\* OverflowError on an infinity and ValueError on a nan.
int_float(token) ==
    LET signed == token # <<>> /\ token[1] \in {"-", "+"}
        body == IF signed THEN Tail(token) ELSE token
        sign == IF signed /\ token[1] = "-" THEN -1 ELSE 1
        ni == Span(body, Digits)
        hasDot == Len(body) > ni /\ body[ni + 1] = "."
        nf == IF hasDot THEN Span(Drop(body, ni + 1), Digits) ELSE 0
        used == ni + (IF hasDot THEN 1 + nf ELSE 0)
    IN  IF body = <<"i", "n", "f">> THEN [kind |-> "OverflowError", value |-> 0]
        ELSE IF body = <<"n", "a", "n">> THEN [kind |-> "ValueError", value |-> 0]
        ELSE IF used = Len(body) /\ ni + nf >= 1
        THEN [kind |-> "int", value |-> sign * DigitsValue(SubSeq(body, 1, ni))]
        ELSE [kind |-> "ValueError", value |-> 0]

\* ---------------------------------------------------- the body of the loop

\* lines 135-149 of process_serial_data for one decoded, stripped line: the
\* clamped (midi_value, velocity) pair, or why there is none
parse_line(raw_data) ==
    LET data == strip_ansi_codes(remove_noise(raw_data))
        parts == split(data)
        first == int_float(parts[1])
        second == int_float(parts[2])
        nothing == [midi_value |-> None, velocity |-> None]
    IN  IF raw_data = <<>> THEN [kind |-> "empty"] @@ nothing
        ELSE IF Len(parts) < 2 THEN [kind |-> "short"] @@ nothing
        ELSE IF first.kind # "int" THEN [kind |-> first.kind] @@ nothing
        ELSE IF second.kind # "int" THEN [kind |-> second.kind] @@ nothing
        ELSE [kind |-> "pair",
              midi_value |-> Max(0, Min(127, first.value)),
              velocity |-> Max(0, Min(127, second.value))]

\* should_send without the velocity threshold
should_send_any_change(midi_value, velocity, lvm, lvv) ==
    \/ midi_value # lvm
    \/ lvv # None /\ Abs(velocity - lvv) >= 0

\* should_send with a strict comparison against the threshold
should_send_strict(midi_value, velocity, lvm, lvv) ==
    \/ midi_value # lvm
    \/ lvv # None /\ Abs(velocity - lvv) > VELOCITY_THRESHOLD

\* should_send of process_serial_data
should_send(midi_value, velocity, lvm, lvv) ==
    \/ midi_value # lvm
    \/ lvv # None /\ Abs(velocity - lvv) >= VELOCITY_THRESHOLD

\* the diagnostic printed for a line
report_of(kind) ==
    CASE kind = "ValueError" -> "Could not parse values"
      [] kind = "UnicodeDecodeError" -> "Invalid data format"
      [] OTHER -> "none"

\* ------------------------------------------------------------ input lines

SP == <<" ">>
NoteFields ==
    { <<"6", "0">>, <<"6", "2">>, <<"-", "5">>, <<"2", "0", "0">>,
      <<"6", "1", ".", "9">>, <<"1", "1", "3", "4">>, <<"x">>,
      <<"i", "n", "f">>, <<"n", "a", "n">> }
VelFields ==
    { <<"0">>, <<"1", "0", "0">>, <<"1", "0", "3">>, <<"1", "0", "5">>,
      <<"1", "3", "4">>, <<"9", "0", "0">>, <<"6", "x">>, <<"-", "i", "n", "f">> }
NoiseLines ==
    { <<"0", "1", "3", "4", " ", "6", "0", " ", "1", "0", "0">>,
      <<"1", "3", "4", "6", "2", " ", "1", "0", "0">>,
      <<ESC, "[", "0", "m", "6", "0", " ", "1", "0", "5">>,
      <<ESC, "[", "1", ";", "3", "1", "m", "6", "2", " ", ESC, "M", "0">>,
      <<ESC, "6", "0", " ", "1", "0", "0">>,
      <<" ", "6", "0", "\t", "1", "0", "0", " ">>,
      <<"6", "0", " ", "1", "0", "0", " ", "x">>,
      <<" ">>, <<>> }
Lines ==
    {a \o SP \o b : a \in NoteFields, b \in VelFields} \cup NoteFields \cup NoiseLines

\* the outcome of every input line, computed once
Outcome == [line \in Lines |-> parse_line(strip(line))]

NoSample == [kind |-> "none", midi_value |-> None, velocity |-> None]

\* ------------------------------------------------------------------ state

\* the controller after __init__, process_serial_data not yet entered
Init ==
    /\ pc = "init"
    /\ powered = TRUE
    /\ last_note = None
    /\ last_vel_note = None
    /\ current_cents = 0
    /\ current_volume = 0
    /\ current_midi_value = None
    /\ current_velocity = None
    /\ last_valid_midi = None
    /\ last_valid_velocity = None
    /\ port_open = TRUE
    /\ sent = <<>>
    /\ mark = 0
    /\ pre_note = None
    /\ pre_vel = None
    /\ op = "__init__"
    /\ sample = NoSample
    /\ prev_sample = NoSample
    /\ forwarded = FALSE
    /\ report = "none"
    /\ exit_cause = "none"
    /\ fn_arg = 0
    /\ fn_ret = None

\* the bookkeeping every step does
Record(name) ==
    /\ op' = name
    /\ mark' = Len(sent)
    /\ pre_note' = last_note
    /\ pre_vel' = last_vel_note

\* the finally block: note off for a held note, then closePort
Finally(cause) ==
    /\ sent' = sent \o finally_messages(last_note)
    /\ port_open' = FALSE
    /\ pc' = "closed"
    /\ exit_cause' = cause

\* serial.Serial(...) opens the port; the loop's locals are initialised
Open ==
    /\ pc = "init"
    /\ pc' = "loop"
    /\ last_valid_midi' = None
    /\ last_valid_velocity' = None
    /\ Record("Open")
    /\ UNCHANGED <<powered, last_note, last_vel_note, current_cents, current_volume,
                   current_midi_value, current_velocity, port_open, sent, sample,
                   prev_sample, forwarded, report, exit_cause, fn_arg, fn_ret>>

\* serial.Serial(...) raises SerialException
OpenFails ==
    /\ pc = "init"
    /\ Finally("SerialException")
    /\ Record("OpenFails")
    /\ UNCHANGED <<powered, last_note, last_vel_note, current_cents, current_volume,
                   current_midi_value, current_velocity, last_valid_midi,
                   last_valid_velocity, sample, prev_sample, forwarded, report,
                   fn_arg, fn_ret>>

\* one iteration of the while loop on a line that decodes
ReadLine(line) ==
    LET o == Outcome[line]
        send == o.kind = "pair"
                /\ should_send(o.midi_value, o.velocity, last_valid_midi, last_valid_velocity)
        r == send_midi_messages(powered, last_note, last_vel_note,
                                current_cents, current_volume)
    IN  /\ pc = "loop"
        /\ powered
        /\ Len(sent) < MaxSent
        /\ Record("ReadLine")
        /\ sample' = o
        /\ prev_sample' = sample
        /\ forwarded' = send
        /\ report' = report_of(o.kind)
        /\ IF send
           THEN /\ current_midi_value' = o.midi_value
                /\ current_velocity' = o.velocity
                /\ last_note' = r.last_note
                /\ last_vel_note' = r.last_vel_note
                /\ last_valid_midi' = o.midi_value
                /\ last_valid_velocity' = o.velocity
                /\ sent' = sent \o r.msgs
                /\ UNCHANGED <<pc, port_open, exit_cause>>
           ELSE IF o.kind = "OverflowError"
           THEN \* not a ValueError: the exception leaves the loop
                /\ Finally("OverflowError")
                /\ UNCHANGED <<current_midi_value, current_velocity, last_note,
                               last_vel_note, last_valid_midi, last_valid_velocity>>
           ELSE UNCHANGED <<current_midi_value, current_velocity, last_note,
                            last_vel_note, last_valid_midi, last_valid_velocity,
                            sent, pc, port_open, exit_cause>>
        /\ UNCHANGED <<powered, current_cents, current_volume, fn_arg, fn_ret>>

\* one iteration on bytes that are not UTF-8: decode raises
\* UnicodeDecodeError, a ValueError, caught by the outer handler
ReadUndecodable ==
    /\ pc = "loop"
    /\ powered
    /\ Len(sent) < MaxSent
    /\ Record("ReadUndecodable")
    /\ sample' = [kind |-> "UnicodeDecodeError", midi_value |-> None, velocity |-> None]
    /\ prev_sample' = sample
    /\ forwarded' = FALSE
    /\ report' = report_of("UnicodeDecodeError")
    /\ UNCHANGED <<pc, powered, last_note, last_vel_note, current_cents,
                   current_volume, current_midi_value, current_velocity,
                   last_valid_midi, last_valid_velocity, port_open, sent,
                   exit_cause, fn_arg, fn_ret>>

\* ser.readline() raises SerialException
ReadFails ==
    /\ pc = "loop"
    /\ Finally("SerialException")
    /\ Record("ReadFails")
    /\ UNCHANGED <<powered, last_note, last_vel_note, current_cents, current_volume,
                   current_midi_value, current_velocity, last_valid_midi,
                   last_valid_velocity, sample, prev_sample, forwarded, report,
                   fn_arg, fn_ret>>

\* KeyboardInterrupt during the blocking read: the handler calls
\* self.power_off(), which the class does not define, so AttributeError is
\* raised in the handler and the finally block runs
Interrupt ==
    /\ pc = "loop"
    /\ Finally("AttributeError")
    /\ Record("Interrupt")
    /\ UNCHANGED <<powered, last_note, last_vel_note, current_cents, current_volume,
                   current_midi_value, current_velocity, last_valid_midi,
                   last_valid_velocity, sample, prev_sample, forwarded, report,
                   fn_arg, fn_ret>>

Next ==
    \/ Open
    \/ OpenFails
    \/ \E line \in Lines : ReadLine(line)
    \/ ReadUndecodable
    \/ ReadFails
    \/ Interrupt

Spec == Init /\ [][Next]_vars

\* ------------------------------------------- the gate driven by its caller

CentsValues == {-150, -1, 0, 50, 100, 250, 800}
VolumeValues == -1 .. VolDen + 1

\* a caller sets current_cents and current_volume and calls
\* send_midi_messages
Candidate(cents, volume) ==
    LET r == send_midi_messages(powered, last_note, last_vel_note, cents, volume)
    IN  /\ pc = "init"
        /\ Len(sent) < MaxGateSent
        /\ Record("Candidate")
        /\ current_cents' = cents
        /\ current_volume' = volume
        /\ last_note' = r.last_note
        /\ last_vel_note' = r.last_vel_note
        /\ sent' = sent \o r.msgs
        /\ UNCHANGED <<pc, powered, current_midi_value, current_velocity,
                       last_valid_midi, last_valid_velocity, port_open, sample,
                       prev_sample, forwarded, report, exit_cause, fn_arg, fn_ret>>

\* the caller shuts down: the finally block of process_serial_data
Shutdown ==
    /\ pc = "init"
    /\ Finally("none")
    /\ Record("Shutdown")
    /\ UNCHANGED <<powered, last_note, last_vel_note, current_cents, current_volume,
                   current_midi_value, current_velocity, last_valid_midi,
                   last_valid_velocity, sample, prev_sample, forwarded, report,
                   fn_arg, fn_ret>>

GateNext ==
    \/ \E cents \in CentsValues, volume \in VolumeValues : Candidate(cents, volume)
    \/ Shutdown

GateSpec == Init /\ [][GateNext]_vars

\* ------------------------------------------- cents_to_pitch_bend on its own

ApplyPitchBend(cents) ==
    /\ op' = "ApplyPitchBend"
    /\ fn_arg' = cents
    /\ fn_ret' = cents_to_pitch_bend(cents)
    /\ UNCHANGED <<pc, powered, last_note, last_vel_note, current_cents,
                   current_volume, current_midi_value, current_velocity,
                   last_valid_midi, last_valid_velocity, port_open, sent, mark,
                   pre_note, pre_vel, sample, prev_sample, forwarded, report,
                   exit_cause>>

BendNext == \E cents \in -MaxBendCents .. MaxBendCents : ApplyPitchBend(cents)

BendSpec == Init /\ [][BendNext]_vars

\* -------------------------------------------- cents_to_midi_note on its own

\* fn_ret is the returned pair (note, remaining cents)
ApplyMidiNote(cents) ==
    /\ op' = "ApplyMidiNote"
    /\ fn_arg' = cents
    /\ fn_ret' = cents_to_midi_note(cents)
    /\ UNCHANGED <<pc, powered, last_note, last_vel_note, current_cents,
                   current_volume, current_midi_value, current_velocity,
                   last_valid_midi, last_valid_velocity, port_open, sent, mark,
                   pre_note, pre_vel, sample, prev_sample, forwarded, report,
                   exit_cause>>

NoteNext == \E cents \in -MaxNoteCents .. MaxNoteCents : ApplyMidiNote(cents)

NoteSpec == Init /\ [][NoteNext]_vars

\* ------------------------------------------------- the session's power flag

PowerCents == {0, 100}
PowerVolumes == {0, VolDen}
PowerLines ==
    { <<"6", "0", " ", "1", "0", "0">>, <<"6", "2", " ", "1", "0", "0">>, <<"x">> }

\* a control action of the session assigns self.powered
SetPowered(b) ==
    /\ pc # "closed"
    /\ powered # b
    /\ powered' = b
    /\ Record("SetPowered")
    /\ UNCHANGED <<pc, last_note, last_vel_note, current_cents, current_volume,
                   current_midi_value, current_velocity, last_valid_midi,
                   last_valid_velocity, port_open, sent, sample, prev_sample,
                   forwarded, report, exit_cause, fn_arg, fn_ret>>

\* while self.powered is false: the loop ends, the with block and the
\* finally block run
LoopExit ==
    /\ pc = "loop"
    /\ ~powered
    /\ Finally("none")
    /\ Record("LoopExit")
    /\ UNCHANGED <<powered, last_note, last_vel_note, current_cents, current_volume,
                   current_midi_value, current_velocity, last_valid_midi,
                   last_valid_velocity, sample, prev_sample, forwarded, report,
                   fn_arg, fn_ret>>

PowerNext ==
    \/ \E b \in BOOLEAN : SetPowered(b)
    \/ \E cents \in PowerCents, volume \in PowerVolumes : Candidate(cents, volume)
    \/ Open
    \/ \E line \in PowerLines : ReadLine(line)
    \/ ReadUndecodable
    \/ LoopExit

PowerSpec == Init /\ [][PowerNext]_vars

\* ------------------------------------------------------- the scale tables

ScaleNames == {"MAJOR_SCALE", "MINOR_SCALE", "PENTATONIC_SCALE", "BLUES_SCALE"}

\* the class attribute of that name
ScaleOf(name) ==
    CASE name = "MAJOR_SCALE" -> MAJOR_SCALE
      [] name = "MINOR_SCALE" -> MINOR_SCALE
      [] name = "PENTATONIC_SCALE" -> PENTATONIC_SCALE
      [] name = "BLUES_SCALE" -> BLUES_SCALE

\* entries i and j (counted from 0) of a scale are read
ReadScale(name, i, j) ==
    /\ op' = "ReadScale"
    /\ fn_arg' = [scale |-> name, i |-> i, j |-> j]
    /\ fn_ret' = [len |-> Len(ScaleOf(name)),
                  first |-> ScaleOf(name)[i + 1],
                  second |-> ScaleOf(name)[j + 1]]
    /\ UNCHANGED <<pc, powered, last_note, last_vel_note, current_cents,
                   current_volume, current_midi_value, current_velocity,
                   last_valid_midi, last_valid_velocity, port_open, sent, mark,
                   pre_note, pre_vel, sample, prev_sample, forwarded, report,
                   exit_cause>>

ScaleNext ==
    \E name \in ScaleNames :
        \E i \in 0 .. Len(ScaleOf(name)) - 1, j \in 0 .. Len(ScaleOf(name)) - 1 :
            ReadScale(name, i, j)

ScaleSpec == Init /\ [][ScaleNext]_vars

\* --------------------------------------------------------------- claims

\* the messages sent by the last step
emitted == SubSeq(sent, mark + 1, Len(sent))

IsNoteEvent(e) == e.type \in {"NoteOn", "NoteOff"}
IsNoteOn(e) == e.type = "NoteOn"
IsPitchBend(e) == e.type = "PitchBend"
NoteEvents(seq) == SelectSeq(seq, IsNoteEvent)
NoteOns(seq) == SelectSeq(seq, IsNoteOn)
PitchBends(seq) == SelectSeq(seq, IsPitchBend)
Chan == midi_channel + 1

\* the note the sink holds after the messages of seq, None if it holds none
Sounding(seq) ==
    LET ne == NoteEvents(seq)
    IN  IF ne # <<>> /\ ne[Len(ne)].type = "NoteOn" THEN ne[Len(ne)].note ELSE None

\* C1: in the processing loop, the first accepted sample (n, v), read while
\* no note is sounding, emits exactly the note event NoteOn(clamp(n), clamp(v)).
C1_FirstNoteOnCarriesSample ==
    (op = "ReadLine" /\ sample.kind = "pair" /\ forwarded /\ pre_note = None)
        => NoteEvents(emitted) = <<NoteOn(Chan, sample.midi_value, sample.velocity)>>

\* C2: a sample read by the loop while a note n is sounding, whose note n'
\* differs from n, emits NoteOff(n) and then NoteOn(n', v') with no other note
\* event in between, and the held state becomes (n', v').
C2_NoteChangeOffThenOn ==
    (op = "ReadLine" /\ sample.kind = "pair" /\ pre_note # None
        /\ sample.midi_value # pre_note)
        => /\ NoteEvents(emitted) = <<NoteOff(Chan, pre_note),
                                      NoteOn(Chan, sample.midi_value, sample.velocity)>>
           /\ last_note = sample.midi_value
           /\ last_vel_note = sample.velocity

\* C3: after any sequence of send_midi_messages calls, whenever last_note is
\* set, last_note and last_vel_note are the note and velocity of the most
\* recently emitted NoteOn, and a call that emits no note event leaves both
\* unchanged.
C3_StateIsLastNoteOn ==
    /\ last_note # None =>
          LET ons == NoteOns(sent)
          IN  /\ ons # <<>>
              /\ ons[Len(ons)].note = last_note
              /\ ons[Len(ons)].vel = last_vel_note
    /\ (op = "Candidate" /\ NoteEvents(emitted) = <<>>) =>
          (last_note = pre_note /\ last_vel_note = pre_vel)

\* C4: in send_midi_messages, when the computed note equals the sounding note
\* n: a velocity delta |v' - last_vel_note| of 31 or more emits NoteOff(n) and
\* then NoteOn(n, v'); a smaller delta emits no NoteOn and no NoteOff.
C4_SameNoteHysteresis ==
    LET note == cents_to_midi_note(current_cents).note
        velocity == volume_to_velocity(current_volume)
    IN  (op = "Candidate" /\ powered /\ pre_note # None /\ note = pre_note)
           => IF Abs(velocity - pre_vel) >= 31
              THEN NoteEvents(emitted) = <<NoteOff(Chan, pre_note),
                                           NoteOn(Chan, pre_note, velocity)>>
              ELSE NoteEvents(emitted) = <<>>

\* C4 witness: a re-trigger at a delta of exactly 31 on an unchanged note.
C4_Witness ==
    /\ op = "Candidate"
    /\ pre_note = 60
    /\ pre_vel = 0
    /\ cents_to_midi_note(current_cents).note = 60
    /\ volume_to_velocity(current_volume) = 31
    /\ NoteEvents(emitted) = <<NoteOff(Chan, 60), NoteOn(Chan, 60, 31)>>

\* C5: a silent candidate (zero intensity) takes the gate to Silent from any
\* state: exactly one NoteOff(n) and a cleared active note if n was sounding,
\* no event if already Silent, and never a NoteOn.
C5_SilentCandidateSilences ==
    (op = "Candidate" /\ volume_to_velocity(current_volume) = 0)
        => /\ last_note = None
           /\ NoteEvents(emitted) =
                 (IF pre_note # None THEN <<NoteOff(Chan, pre_note)>> ELSE <<>>)

C7_MalformedLineNeverAborts ==
    (op \in {"ReadLine", "ReadUndecodable"} /\ sample.kind # "pair")
        => /\ pc = "loop"
           /\ emitted = <<>>
           /\ last_note = pre_note
           /\ last_vel_note = pre_vel

C9_EveryParsedSampleBends ==
    (op = "ReadLine" /\ sample.kind = "pair") => Len(PitchBends(emitted)) = 1

\* C9 amended: a parsed sample emits exactly one PitchBend when the loop
\* forwards it (its note differs from last_valid_midi, or its velocity is 5 or
\* more away from last_valid_velocity), also when no NoteOn or NoteOff is
\* emitted for it; a parsed sample that is not forwarded emits nothing.
C9_ForwardedSampleBends ==
    [][(op' = "ReadLine" /\ sample'.kind = "pair")
         => LET fw == \/ sample'.midi_value # last_valid_midi
                      \/ /\ last_valid_velocity # None
                         /\ Abs(sample'.velocity - last_valid_velocity) >= 5
                new == SubSeq(sent', Len(sent) + 1, Len(sent'))
            IN  IF fw THEN Len(PitchBends(new)) = 1 ELSE new = <<>>]_vars

\* C9 witness: a forwarded sample that emitted a PitchBend and no note event.
C9_Witness ==
    /\ op = "ReadLine"
    /\ sample.kind = "pair"
    /\ forwarded
    /\ pre_note # None
    /\ emitted = <<PitchBend(Chan, 8192)>>

\* C10 as stated: cents 0 maps to 8192, +50 to 16383, -50 to 0.
C10_FullRangeAtFifty ==
    /\ (op = "ApplyPitchBend" /\ fn_arg = 0) => fn_ret = 8192
    /\ (op = "ApplyPitchBend" /\ fn_arg = 50) => fn_ret = 16383
    /\ (op = "ApplyPitchBend" /\ fn_arg = -50) => fn_ret = 0

\* C10 amended: cents_to_pitch_bend is the linear map with centre 8192 and
\* 8192 units per 200 cents, clamped to 0..16383: cents 0 maps to 8192, +50 to
\* 10240, -50 to 6144, the ends 16383 and 0 are reached at +200 and -200, and
\* the map is monotonically non-decreasing over integer cents.
C10_LinearPerTwoHundred ==
    /\ [](op = "ApplyPitchBend" =>
            /\ fn_ret \in 0 .. 16383
            /\ fn_arg = 0 => fn_ret = 8192
            /\ fn_arg = 50 => fn_ret = 10240
            /\ fn_arg = -50 => fn_ret = 6144
            /\ fn_arg >= 200 <=> fn_ret = 16383
            /\ fn_arg <= -200 <=> fn_ret = 0
            /\ fn_arg \in -199 .. 199 => fn_ret = 8192 + ((fn_arg * 1024) \div 25))
    /\ [][(op = "ApplyPitchBend" /\ op' = "ApplyPitchBend" /\ fn_arg' >= fn_arg)
            => fn_ret' >= fn_ret]_vars

\* C10 witness: the conversion applied to +50 cents gave 10240.
C10_Witness == op = "ApplyPitchBend" /\ fn_arg = 50 /\ fn_ret = 10240


\* C11 as stated: for every integer cents value c, cents_to_midi_note returns
\* note = 60 + scale[floor(c'/100) mod 8] and remainder = c' - 100*floor(c'/100)
\* with c' = c clamped to [-1200, 1200], the index in 0..7 and the remainder
\* in [0, 100).
C11_QuantizerClamped ==
    op = "ApplyMidiNote" =>
        LET c == Max(-1200, Min(1200, fn_arg))
            index == (c \div 100) % 8
        IN  /\ index \in 0 .. 7
            /\ fn_ret.note = 60 + MAJOR_SCALE[index + 1]
            /\ fn_ret.remaining = c - 100 * (c \div 100)
            /\ fn_ret.remaining \in 0 .. 99

\* C11 amended: for every integer cents value c, negative and beyond
\* [-1200, 1200] included, cents_to_midi_note returns
\* note = 60 + MAJOR_SCALE[floor(c/100) mod 8] and remainder = c - 100*floor(c/100)
\* with no clamp of c; the index is in 0..7 and the remainder in [0, 100).
C11_QuantizerWraps ==
    op = "ApplyMidiNote" =>
        LET index == (fn_arg \div 100) % 8
        IN  /\ index \in 0 .. 7
            /\ fn_ret.note = 60 + MAJOR_SCALE[index + 1]
            /\ fn_ret.remaining = fn_arg - 100 * (fn_arg \div 100)
            /\ fn_ret.remaining \in 0 .. 99

\* C11 witness: -1250 cents, below the claimed clamp, wraps to index 3 with
\* remainder 50.
C11_Witness ==
    /\ op = "ApplyMidiNote"
    /\ fn_arg = -1250
    /\ fn_ret.note = 65
    /\ fn_ret.remaining = 50


\* C12: every message sent, for any current_cents and current_volume, is
\* well-formed: a NoteOn has note and velocity in 0..127, a NoteOff has note
\* in 0..127, a PitchBend has value in 0..16383.
C12_MessagesWellFormed ==
    \A i \in 1 .. Len(sent) :
        LET e == sent[i]
        IN  /\ e.type \in {"NoteOn", "NoteOff", "PitchBend"}
            /\ e.type = "NoteOn" => (e.note \in 0 .. 127 /\ e.vel \in 0 .. 127)
            /\ e.type = "NoteOff" => e.note \in 0 .. 127
            /\ e.type = "PitchBend" => e.value \in 0 .. 16383

\* C12 witness: a volume above 1 and a volume below 0 were both sent as
\* velocities 127 and 0, and a note was released at shutdown.
C12_Witness ==
    /\ pc = "closed"
    /\ current_volume > VolDen
    /\ \E i \in 1 .. Len(sent) : sent[i].type = "NoteOn" /\ sent[i].vel = 127
    /\ \E i \in 1 .. Len(sent) : sent[i].type = "NoteOn" /\ sent[i].vel = 0
    /\ sent[Len(sent)].type = "NoteOff"


\* C13: while the session is powered off, a call of send_midi_messages sends
\* no message and changes neither last_note nor last_vel_note, and the
\* processing loop reads no further line.
C13_PoweredOffSuppresses ==
    [][/\ (op' = "Candidate" /\ ~powered)
            => UNCHANGED <<sent, last_note, last_vel_note, pc, port_open>>
       /\ ~powered => op' \notin {"ReadLine", "ReadUndecodable"}]_vars

\* C13 witness: a call made while powered off, with a candidate whose note
\* differs from the held one, sent nothing and left the held note.
C13_Witness ==
    /\ op = "Candidate"
    /\ ~powered
    /\ pre_note # None
    /\ cents_to_midi_note(current_cents).note # pre_note
    /\ volume_to_velocity(current_volume) # pre_vel
    /\ emitted = <<>>
    /\ last_note = pre_note
    /\ last_vel_note = pre_vel


\* C14: every non-empty line that is dropped without being parsed into a
\* (note, velocity) pair (fewer than two tokens, or a token that fails to
\* parse) is reported by exactly one diagnostic before the loop continues.
C14_MalformedLineReported ==
    (op \in {"ReadLine", "ReadUndecodable"} /\ sample.kind \notin {"pair", "empty"})
        => (report # "none" /\ pc = "loop")


\* C15 as stated: every scale of the controller has exactly 8 entries, entry
\* 0 equal to 0, entries monotonically non-decreasing, and every entry within
\* one octave, 0 to 12 inclusive.
C15_ScalesWithinOctave ==
    op = "ReadScale" =>
        /\ fn_ret.len = 8
        /\ fn_arg.i = 0 => fn_ret.first = 0
        /\ fn_arg.i <= fn_arg.j => fn_ret.first <= fn_ret.second
        /\ fn_ret.first \in 0 .. 12

\* C15 amended: every scale of the controller has exactly 8 entries, entry 0
\* equal to 0 and entries monotonically non-decreasing (strictly increasing);
\* MAJOR_SCALE and MINOR_SCALE stay within one octave, 0 to 12, while
\* BLUES_SCALE reaches 15 and PENTATONIC_SCALE reaches 16.
C15_ScalesOrdered ==
    op = "ReadScale" =>
        /\ fn_ret.len = 8
        /\ fn_arg.i = 0 => fn_ret.first = 0
        /\ fn_arg.i <= fn_arg.j => fn_ret.first <= fn_ret.second
        /\ fn_arg.i < fn_arg.j => fn_ret.first < fn_ret.second
        /\ fn_ret.first \in 0 .. (CASE fn_arg.scale = "PENTATONIC_SCALE" -> 16
                                    [] fn_arg.scale = "BLUES_SCALE" -> 15
                                    [] OTHER -> 12)
        /\ fn_arg.i = 7 => fn_ret.first = (CASE fn_arg.scale = "PENTATONIC_SCALE" -> 16
                                             [] fn_arg.scale = "BLUES_SCALE" -> 15
                                             [] OTHER -> 12)

\* C15 witness: the last entry of PENTATONIC_SCALE, read after the one before
\* it, is 16.
C15_Witness ==
    /\ op = "ReadScale"
    /\ fn_arg = [scale |-> "PENTATONIC_SCALE", i |-> 6, j |-> 7]
    /\ fn_ret = [len |-> 8, first |-> 14, second |-> 16]


\* C16: in the messages of any sequence of send_midi_messages calls followed
\* by shutdown, NoteOn and NoteOff strictly alternate starting with a NoteOn,
\* and every NoteOff names the note of the NoteOn immediately before it (so
\* no NoteOff precedes the first NoteOn and at most one note sounds).
C16_NoteEventsAlternate ==
    LET ne == NoteEvents(sent)
    IN  /\ \A i \in 1 .. Len(ne) :
              IF i % 2 = 1
              THEN ne[i].type = "NoteOn"
              ELSE ne[i].type = "NoteOff" /\ ne[i].note = ne[i - 1].note
        /\ pc = "closed" => Len(ne) % 2 = 0

\* C16 witness: a note, a change of note and the shutdown gave NoteOn,
\* NoteOff, NoteOn, NoteOff.
C16_Witness ==
    LET ne == NoteEvents(sent)
    IN  /\ pc = "closed"
        /\ op = "Shutdown"
        /\ Len(ne) = 4
        /\ ne[1].note # ne[3].note
        /\ ne[2] = NoteOff(Chan, ne[1].note)
        /\ ne[4] = NoteOff(Chan, ne[3].note)


\* C17: a parsed sample (n, v), clamped to 0..127, is forwarded to
\* send_midi_messages if and only if n differs from last_valid_midi, or
\* last_valid_velocity is set and |v - last_valid_velocity| >= 5; the first
\* parsed sample is always forwarded; last_valid_midi and last_valid_velocity
\* change only when a sample is forwarded and then equal that sample.
C17_LoopGate ==
    [][/\ (op' = "ReadLine" /\ sample'.kind = "pair")
            => LET fw == \/ sample'.midi_value # last_valid_midi
                         \/ /\ last_valid_velocity # None
                            /\ Abs(sample'.velocity - last_valid_velocity) >= 5
               IN  /\ sample'.midi_value \in 0 .. 127
                   /\ sample'.velocity \in 0 .. 127
                   /\ forwarded' <=> fw
                   /\ sent' # sent <=> fw
                   /\ last_valid_midi = None => fw
                   /\ IF fw
                      THEN /\ last_valid_midi' = sample'.midi_value
                           /\ last_valid_velocity' = sample'.velocity
                      ELSE UNCHANGED <<last_valid_midi, last_valid_velocity>>
       /\ ~(op' = "ReadLine" /\ sample'.kind = "pair")
            => UNCHANGED <<last_valid_midi, last_valid_velocity>>]_vars

\* C17 witness: a velocity drifting in steps smaller than 5 is forwarded once
\* it is 5 away from the last forwarded velocity.
C17_Witness ==
    /\ op = "ReadLine"
    /\ sample.kind = "pair"
    /\ prev_sample.kind = "pair"
    /\ prev_sample.midi_value = sample.midi_value
    /\ Abs(sample.velocity - prev_sample.velocity) < 5
    /\ forwarded
    /\ emitted = <<PitchBend(Chan, 8192)>>
    /\ last_valid_velocity = sample.velocity
    /\ last_valid_velocity = 105


NoiseLiterals == { <<"0", "1", "3", "4">>, <<"1", "3", "4">> }
StartsWith(s, p) == Len(s) >= Len(p) /\ SubSeq(s, 1, Len(p)) = p

\* C18: the noise literals are removed only where they are a prefix of the
\* line: a line of two numeric fields that does not start with a noise
\* literal parses to the two fields as sent, even when the digits of a field
\* contain "134".
C18_NoiseRemovedOnlyAsPrefix ==
    [][\A a \in NoteFields, b \in VelFields :
          (/\ ReadLine(a \o SP \o b)
           /\ int_float(a).kind = "int"
           /\ int_float(b).kind = "int"
           /\ \A p \in NoiseLiterals : ~StartsWith(a \o SP \o b, p))
          => /\ sample'.kind = "pair"
             /\ sample'.midi_value = Max(0, Min(127, int_float(a).value))
             /\ sample'.velocity = Max(0, Min(127, int_float(b).value))]_vars


\* the pitch bend send_midi_messages computes, for every integer cents value
\* in -MaxNoteCents .. MaxNoteCents, is in [8192, 12288)
C19_EveryCents ==
    \A cents \in -MaxNoteCents .. MaxNoteCents :
        LET msgs == pitch_bend_messages(cents_to_midi_note(cents).remaining)
        IN  Len(msgs) = 1 /\ msgs[1].value \in 8192 .. 12287

\* C19: every PitchBend sent by send_midi_messages, for any integer
\* current_cents, has a value in [8192, 12288): none is below the centre
\* 8192, because the remainder of cents_to_midi_note is in [0, 100).
C19_PitchBendAboveCentre ==
    /\ C19_EveryCents
    /\ \A i \in 1 .. Len(sent) :
          sent[i].type = "PitchBend" => sent[i].value \in 8192 .. 12287
    /\ op = "Candidate" =>
          /\ cents_to_midi_note(current_cents).remaining \in 0 .. 99
          /\ emitted[1] = PitchBend(Chan,
                8192 + (cents_to_midi_note(current_cents).remaining * 1024) \div 25)

\* C19 witness: -1 cents, remainder 99, sent the largest pitch bend, 12247.
C19_Witness ==
    /\ op = "Candidate"
    /\ current_cents = -1
    /\ emitted[1] = PitchBend(Chan, 12247)

====
